---- MODULE Spec2Model ----
(***************************************************************************)
(* Model of streamlit_app.py: the load_data normalization pipeline, its    *)
(* st.cache_data memoization, and the button-toggle mineral selector.      *)
(*                                                                         *)
(* Text is modelled as a sequence of one-character strings, so that the    *)
(* str.replace / regex / strip / title / endswith / extract calls of the   *)
(* pipeline are computed character by character as pandas computes them.   *)
(* A missing value (pandas NaN in an object column) is the one-element     *)
(* sequence NaN, which no text equals because its element is not a single  *)
(* character.  A float64 is a record [k, n, d]: k = "fin" with the value    *)
(* n/d in lowest terms (d > 0), or k = "nan", "inf", "ninf".               *)
(***************************************************************************)
EXTENDS Integers, Sequences, FiniteSets, TLC

(***************************************************************************)
(* Characters and text helpers                                             *)
(***************************************************************************)
NaN == <<"NaN">>

LowerLetters == <<"a","b","c","d","e","f","g","h","i","j","k","l","m",
                  "n","o","p","q","r","s","t","u","v","w","x","y","z">>

UpperLetters == <<"A","B","C","D","E","F","G","H","I","J","K","L","M",
                  "N","O","P","Q","R","S","T","U","V","W","X","Y","Z">>

Range(f) == {f[i] : i \in DOMAIN f}

IsLower(c) == c \in Range(LowerLetters)

IsUpper(c) == c \in Range(UpperLetters)

ToUpper(c) ==
  IF IsLower(c) THEN UpperLetters[CHOOSE i \in DOMAIN LowerLetters : LowerLetters[i] = c]
  ELSE c

ToLower(c) ==
  IF IsUpper(c) THEN LowerLetters[CHOOSE i \in DOMAIN UpperLetters : UpperLetters[i] = c]
  ELSE c

\* the characters \s matches and str.strip removes, among those the model draws
IsSpace(c) == c = " "

Digits == <<"0","1","2","3","4","5","6","7","8","9">>

IsDigit(c) == c \in Range(Digits)

DigitValue(c) == (CHOOSE i \in DOMAIN Digits : Digits[i] = c) - 1

\* s[i .. i+Len(p)-1] = p
MatchesAt(s, p, i) ==
  /\ i + Len(p) - 1 <= Len(s)
  /\ \A j \in 1..Len(p) : s[i + j - 1] = p[j]

\* str.endswith
EndsWith(s, suffix) ==
  /\ Len(suffix) <= Len(s)
  /\ MatchesAt(s, suffix, Len(s) - Len(suffix) + 1)

\* substring test: p occurs in s
Contains(s, p) == \E i \in 1..(Len(s) + 1) : MatchesAt(s, p, i)

\* Series.astype(str): a missing value becomes the text 'nan'
AsStr(v) == IF v = NaN THEN <<"n","a","n">> ELSE v

RECURSIVE RemoveAllFrom(_, _, _)
\* str.replace(p, '') from position i on: every non-overlapping occurrence of
\* p, scanning left to right, is removed
RemoveAllFrom(s, p, i) ==
  IF i > Len(s) THEN <<>>
  ELSE IF MatchesAt(s, p, i) THEN RemoveAllFrom(s, p, i + Len(p))
  ELSE <<s[i]>> \o RemoveAllFrom(s, p, i + 1)

MiningOf == <<"M","i","n","i","n","g"," ","o","f"," ">>

\* .str.replace('Mining of ','',regex=False)
StripPrefixPhrase(s) == RemoveAllFrom(s, MiningOf, 1)

\* .str.replace(r'\s*\(.*\)','',regex=True): the leftmost match starts at the
\* whitespace run in front of the first '(' and, '.*' being greedy, ends at the
\* last ')' of the text; no ')' is left after it, so there is one match at most
StripParenthetical(s) ==
  LET opens == {i \in 1..Len(s) : s[i] = "("}
      closes == {i \in 1..Len(s) : s[i] = ")"}
  IN IF opens = {} \/ closes = {} THEN s
     ELSE LET q == CHOOSE i \in opens : \A j \in opens : i <= j
              r == CHOOSE i \in closes : \A j \in closes : i >= j
              p == CHOOSE i \in 1..q :
                     /\ \A j \in i..(q - 1) : IsSpace(s[j])
                     /\ (i = 1 \/ ~IsSpace(s[i - 1]))
          IN IF r < q THEN s
             ELSE SubSeq(s, 1, p - 1) \o SubSeq(s, r + 1, Len(s))

\* .str.strip()
Strip(s) ==
  LET keep == {i \in 1..Len(s) : ~IsSpace(s[i])}
  IN IF keep = {} THEN <<>>
     ELSE SubSeq(s, CHOOSE i \in keep : \A j \in keep : i <= j,
                    CHOOSE i \in keep : \A j \in keep : i >= j)

\* .str.title(): a letter is upper-cased when the character before it is not a
\* letter and lower-cased when it is; other characters are kept
Title(s) ==
  [i \in 1..Len(s) |->
     LET prevCased == i > 1 /\ (IsLower(s[i - 1]) \/ IsUpper(s[i - 1]))
     IN IF prevCased THEN ToLower(s[i]) ELSE ToUpper(s[i])]

\* the chain with strip called before the parenthetical is removed
CleanMineralStripFirst(v) ==
  Title(StripParenthetical(Strip(StripPrefixPhrase(AsStr(v)))))

\* the chain of lines 30-35 on one label cell
CleanMineral(v) ==
  Title(Strip(StripParenthetical(StripPrefixPhrase(AsStr(v)))))

AggregateSentinel == <<"2","9","9","9","9">>

TotalIndustry == <<"T","o","t","a","l"," ","I","n","d","u","s","t","r","y">>

\* lines 30-36 for one row: the cleaned label, overridden by the code suffix
NormalizeLabel(mineral, code) ==
  IF EndsWith(AsStr(code), AggregateSentinel) THEN TotalIndustry
  ELSE CleanMineral(mineral)

\* .str.extract(r'^([A-Z]+)')[0]: the longest leading run of A-Z, missing when
\* the text does not start with one
ExtractMetric(code) ==
  LET s == AsStr(code)
      n == CHOOSE k \in 0..Len(s) :
             /\ \A j \in 1..k : IsUpper(s[j])
             /\ (k = Len(s) \/ ~IsUpper(s[k + 1]))
  IN IF n = 0 THEN NaN ELSE SubSeq(s, 1, n)

(***************************************************************************)
(* float64 values and raw cells                                            *)
(***************************************************************************)
Fin(i) == [k |-> "fin", n |-> i, d |-> 1]

NaNF == [k |-> "nan", n |-> 0, d |-> 1]

InfF == [k |-> "inf", n |-> 0, d |-> 1]

NegInfF == [k |-> "ninf", n |-> 0, d |-> 1]

Abs(i) == IF i < 0 THEN -i ELSE i

RECURSIVE Gcd(_, _)
Gcd(a, b) == IF b = 0 THEN a ELSE Gcd(b, a % b)

\* Series / Series on float64 (line 47): true division with the IEEE results
\* for a zero divisor; a missing operand gives a missing result
FloatDiv(a, b) ==
  IF a.k # "fin" \/ b.k # "fin" THEN NaNF
  ELSE IF b.n = 0
       THEN (IF a.n > 0 THEN InfF ELSE IF a.n < 0 THEN NegInfF ELSE NaNF)
  ELSE LET num == a.n * b.d * (IF b.n < 0 THEN -1 ELSE 1)
           den == a.d * Abs(b.n)
           g == Gcd(Abs(num), den)
       IN [k |-> "fin", n |-> num \div g, d |-> den \div g]

\* a spreadsheet cell: a number, a text, or empty
NumCell(i) == [t |-> "num", n |-> i, s |-> <<>>]

StrCell(txt) == [t |-> "str", n |-> 0, s |-> txt]

EmptyCell == [t |-> "nan", n |-> 0, s |-> <<>>]

RECURSIVE ParseDigits(_)
ParseDigits(s) ==
  IF s = <<>> THEN 0
  ELSE 10 * ParseDigits(SubSeq(s, 1, Len(s) - 1)) + DigitValue(s[Len(s)])

IsDigitText(s) == Len(s) > 0 /\ \A i \in 1..Len(s) : IsDigit(s[i])

\* pd.to_numeric(..., errors='coerce') on one cell: a number is kept, a text of
\* digits is parsed, any other text drawn here and an empty cell become NaN
ToNumeric(cell) ==
  IF cell.t = "num" THEN Fin(cell.n)
  ELSE IF cell.t = "str" /\ IsDigitText(cell.s) THEN Fin(ParseDigits(cell.s))
  ELSE NaNF

(***************************************************************************)
(* load_data, step by step                                                 *)
(***************************************************************************)
\* value_vars of the melt: the four year columns, named by their text
YearColumns == << <<"2","0","1","2">>, <<"2","0","1","5">>,
                  <<"2","0","1","9">>, <<"2","0","2","2">> >>

FOPEN == <<"F","O","P","E","N">>

FISALES == <<"F","I","S","A","L","E","S">>

FINC == <<"F","I","N","C">>

FEXP == <<"F","E","X","P">>

FCLOSE == <<"F","C","L","O","S","E">>

FEMPTOT == <<"F","E","M","P","T","O","T">>

OpeningStock == <<"O","p","e","n","i","n","g"," ","S","t","o","c","k">>

SalesRevenue == <<"S","a","l","e","s"," ","R","e","v","e","n","u","e">>

TotalIncome == <<"T","o","t","a","l"," ","I","n","c","o","m","e">>

TotalExpenditure == <<"T","o","t","a","l"," ","E","x","p","e","n","d","i","t","u","r","e">>

ClosingStock == <<"C","l","o","s","i","n","g"," ","S","t","o","c","k">>

EmploymentPersons == <<"E","m","p","l","o","y","m","e","n","t"," ","(","P","e","r","s","o","n","s",")">>

metric_map ==
  (FOPEN :> OpeningStock) @@ (FISALES :> SalesRevenue) @@ (FINC :> TotalIncome) @@
  (FEXP :> TotalExpenditure) @@ (FCLOSE :> ClosingStock) @@ (FEMPTOT :> EmploymentPersons)

\* line 41: Series.map(metric_map) gives NaN where the code is no key of the
\* table (a missing code included); fillna then takes the raw metric code
MapMetric(metric) ==
  LET mapped == IF metric \in DOMAIN metric_map THEN metric_map[metric] ELSE NaN
  IN IF mapped = NaN THEN metric ELSE mapped

\* lines 20-22: drop the first grid row, keep the six columns, drop the rows
\* whose code cell is empty, add the metric column
ProjectRows(grid) ==
  LET body == SelectSeq(Tail(grid), LAMBDA r : r.code # NaN)
  IN [i \in 1..Len(body) |->
        [code |-> body[i].code, mineral |-> body[i].mineral, y |-> body[i].y,
         metric |-> ExtractMetric(body[i].code)]]

\* the melt with the last year column left out of value_vars
MeltRowsWithoutLastYear(frame) ==
  LET n == Len(frame)
  IN [j \in 1..((Len(YearColumns) - 1) * n) |->
        LET c == ((j - 1) \div n) + 1
            i == ((j - 1) % n) + 1
        IN [code |-> frame[i].code, metric |-> frame[i].metric,
            mineral |-> frame[i].mineral,
            Year |-> ParseDigits(YearColumns[c]),
            Value |-> ToNumeric(frame[i].y[c])]]

\* lines 24-27: melt puts the rows of the first year column first, then those
\* of the second, ...; Year is parsed to an integer and Value coerced
MeltRows(frame) ==
  LET n == Len(frame)
  IN [j \in 1..(Len(YearColumns) * n) |->
        LET c == ((j - 1) \div n) + 1
            i == ((j - 1) % n) + 1
        IN [code |-> frame[i].code, metric |-> frame[i].metric,
            mineral |-> frame[i].mineral,
            Year |-> ParseDigits(YearColumns[c]),
            Value |-> ToNumeric(frame[i].y[c])]]

\* lines 30-36: the Mineral column
AddMineral(long) ==
  [j \in 1..Len(long) |->
     [code |-> long[j].code, metric |-> long[j].metric, mineral |-> long[j].mineral,
      Year |-> long[j].Year, Value |-> long[j].Value,
      Mineral |-> NormalizeLabel(long[j].mineral, long[j].code)]]

\* lines 39-41: the Metric column
AddMetric(long) ==
  [j \in 1..Len(long) |->
     [code |-> long[j].code, metric |-> long[j].metric, mineral |-> long[j].mineral,
      Year |-> long[j].Year, Value |-> long[j].Value, Mineral |-> long[j].Mineral,
      Metric |-> MapMetric(long[j].metric)]]

RECURSIVE JoinFrom(_, _, _, _)
\* the rows pd.merge builds from left row i on: every pair of a left and a right
\* row that agree on Mineral and Year (inner, many-to-many)
JoinFrom(left, right, i, j) ==
  IF i > Len(left) THEN <<>>
  ELSE IF j > Len(right) THEN JoinFrom(left, right, i + 1, 1)
  ELSE IF left[i].Mineral = right[j].Mineral /\ left[i].Year = right[j].Year
       THEN << [Mineral |-> left[i].Mineral, Year |-> left[i].Year,
                code_Sales |-> left[i].code, Value_Sales |-> left[i].Value,
                code_Emp |-> right[j].code, Value_Emp |-> right[j].Value,
                Sales_per_Employee |-> FloatDiv(left[i].Value, right[j].Value)] >>
            \o JoinFrom(left, right, i, j + 1)
  ELSE JoinFrom(left, right, i, j + 1)

\* lines 44-47: the sales-per-employee table
MergeSalesEmployment(long) ==
  LET sales == SelectSeq(long, LAMBDA r : r.Metric = SalesRevenue)
      employment == SelectSeq(long, LAMBDA r : r.Metric = EmploymentPersons)
  IN JoinFrom(sales, employment, 1, 1)

\* load_data as one call: the pair it returns
load_data(grid) ==
  LET long == AddMetric(AddMineral(MeltRows(ProjectRows(grid))))
  IN <<long, MergeSalesEmployment(long)>>

(***************************************************************************)
(* The grids the model reads                                               *)
(***************************************************************************)
MaxRows == 3

SalesTotalCode == FISALES \o AggregateSentinel

SalesCode == FISALES \o <<"2","3","0","0","0">>

EmploymentCode == FEMPTOT \o <<"2","3","0","0","0">>

\* a code whose metric prefix is no key of metric_map
UnmappedCode == <<"F","T","A","X","2","3","0","0","0">>

\* a code with no upper-case prefix
DigitsOnlyCode == <<"2","3","0","0","0">>

GoldOre == <<"g","o","l","d"," ","o","r","e">>

MiningOfGoldOreA == MiningOf \o GoldOre \o <<" ","(","a",")">>

AllIndustries == <<"a","l","l"," ","i","n","d","u","s","t","r","i","e","s">>

NotAvailable == <<"n","/","a">>

NumberCells == <<NumCell(10), NumCell(20), NumCell(30), NumCell(40)>>

MixedCells == <<StrCell(NotAvailable), NumCell(0), StrCell(<<"7">>), EmptyCell>>

\* the data rows a sheet is made of: rows without a code, with an unmapped or
\* prefix-less code, sales and employment rows with fully numeric cells under
\* two labels, and sales and employment rows with text, zero and empty cells
DataRows ==
  [code : {NaN, UnmappedCode, DigitsOnlyCode}, mineral : {GoldOre}, y : {MixedCells}]
  \cup [code : {SalesTotalCode, SalesCode, EmploymentCode},
        mineral : {MiningOfGoldOreA, AllIndustries}, y : {NumberCells}]
  \cup [code : {SalesCode, EmploymentCode}, mineral : {GoldOre}, y : {MixedCells}]

\* the first row of the sheet, which holds the column titles
HeaderRow ==
  [code |-> <<"C","o","d","e">>, mineral |-> <<"N","a","m","e">>,
   y |-> [c \in 1..Len(YearColumns) |-> StrCell(YearColumns[c])]]

RECURSIVE SeqsUpTo(_, _)
SeqsUpTo(S, n) ==
  IF n = 0 THEN {<<>>}
  ELSE LET shorter == SeqsUpTo(S, n - 1)
       IN shorter \cup {Append(q, x) : q \in shorter, x \in S}

Grids == {<<HeaderRow>> \o rows : rows \in SeqsUpTo(DataRows, MaxRows)}

(***************************************************************************)
(* State                                                                   *)
(*   pc, df_raw, df, df_long, merged : one run of load_data, step by step    *)
(*   raw_label, rec_code, label, passes : the label cleaning applied to one *)
(*     label cell, and applied again to its own result                      *)
(*   file : the content of the workbook on disk                             *)
(*   cache : the st.cache_data entries of load_data, <<>> or one result     *)
(*   df_global, df_merged : the module-level tables of the latest run       *)
(*   session_state : st.session_state, its keys and its selected_minerals   *)
(*   clicked : the mineral button pressed since the latest run              *)
(*   file_at_call : the workbook content when load_data was last called     *)
(***************************************************************************)
VARIABLES pc, df_raw, df, df_long, merged,
          raw_label, rec_code, label, passes,
          file, cache, df_global, df_merged, session_state, clicked, file_at_call

varsLoad == <<pc, df_raw, df, df_long, merged>>

varsNorm == <<raw_label, rec_code, label, passes>>

varsSession == <<file, cache, df_global, df_merged, session_state, clicked, file_at_call>>

vars == <<varsLoad, varsNorm, varsSession>>

LoadIdle == pc = "idle" /\ df_raw = <<>> /\ df = <<>> /\ df_long = <<>> /\ merged = <<>>

NormIdle == raw_label = <<>> /\ rec_code = <<>> /\ label = <<>> /\ passes = 0

NoButton == <<"None">>

SessionIdle ==
  /\ file = <<>>
  /\ cache = <<>>
  /\ df_global = <<>>
  /\ df_merged = <<>>
  /\ session_state = [keys |-> {}, selected_minerals |-> <<>>]
  /\ clicked = NoButton
  /\ file_at_call = <<>>

(***************************************************************************)
(* load_data on every grid                                                 *)
(***************************************************************************)
\* after pd.read_excel (line 19)
InitLoad ==
  /\ pc = "read"
  /\ df_raw \in Grids
  /\ df = <<>>
  /\ df_long = <<>>
  /\ merged = <<>>
  /\ NormIdle
  /\ SessionIdle

\* lines 20-22
Project ==
  /\ pc = "read"
  /\ df' = ProjectRows(df_raw)
  /\ pc' = "projected"
  /\ UNCHANGED <<df_raw, df_long, merged, varsNorm, varsSession>>

\* lines 24-27
Melt ==
  /\ pc = "projected"
  /\ df_long' = MeltRows(df)
  /\ pc' = "melted"
  /\ UNCHANGED <<df_raw, df, merged, varsNorm, varsSession>>

\* lines 30-36
CleanMinerals ==
  /\ pc = "melted"
  /\ df_long' = AddMineral(df_long)
  /\ pc' = "cleaned"
  /\ UNCHANGED <<df_raw, df, merged, varsNorm, varsSession>>

\* lines 39-41
MapMetrics ==
  /\ pc = "cleaned"
  /\ df_long' = AddMetric(df_long)
  /\ pc' = "named"
  /\ UNCHANGED <<df_raw, df, merged, varsNorm, varsSession>>

\* lines 44-48
Merge ==
  /\ pc = "named"
  /\ merged' = MergeSalesEmployment(df_long)
  /\ pc' = "done"
  /\ UNCHANGED <<df_raw, df, df_long, varsNorm, varsSession>>

NextLoad == Project \/ Melt \/ CleanMinerals \/ MapMetrics \/ Merge

SpecLoad == InitLoad /\ [][NextLoad]_vars

(***************************************************************************)
(* Claims about load_data                                                  *)
(***************************************************************************)
Returned == pc = "done"

ConfiguredYears == <<2012, 2015, 2019, 2022>>

Coercible(cell) == cell.t = "num" \/ (cell.t = "str" /\ IsDigitText(cell.s))

RowsOfYear(long, yr) == SelectSeq(long, LAMBDA r : r.Year = yr)

\* C1: every returned row whose code ends in '29999' or whose raw label
\* contains 'all industries' has the mineral label 'Total Industry'
C1_AggregateByCodeOrLabel ==
  Returned =>
    \A j \in DOMAIN df_long :
      (EndsWith(df_long[j].code, AggregateSentinel)
         \/ Contains(AsStr(df_long[j].mineral), AllIndustries))
      => df_long[j].Mineral = TotalIndustry

SalesKeys == {<<r.Mineral, r.Year>> : r \in {df_long[j] : j \in {i \in DOMAIN df_long : df_long[i].Metric = SalesRevenue}}}

EmploymentKeys == {<<r.Mineral, r.Year>> : r \in {df_long[j] : j \in {i \in DOMAIN df_long : df_long[i].Metric = EmploymentPersons}}}

DerivedCount(key) ==
  Cardinality({m \in DOMAIN merged : <<merged[m].Mineral, merged[m].Year>> = key})

\* C2: the derived table has exactly one row for each (mineral, year) pair that
\* occurs among both the sales rows and the employment rows, and none for a
\* pair that occurs on one side only
C2_OneDerivedRowPerSharedPair ==
  Returned =>
    /\ \A key \in SalesKeys \cap EmploymentKeys : DerivedCount(key) = 1
    /\ \A m \in DOMAIN merged :
         <<merged[m].Mineral, merged[m].Year>> \in SalesKeys \cap EmploymentKeys

\* C3: no two returned observation rows share metric name, mineral label and year
C3_UniqueObservationKey ==
  Returned =>
    \A i, j \in DOMAIN df_long :
      (/\ df_long[i].Metric = df_long[j].Metric
       /\ df_long[i].Mineral = df_long[j].Mineral
       /\ df_long[i].Year = df_long[j].Year) => i = j

\* C4: a cell that cannot be coerced to a number is never turned into zero, and
\* its row is not in the returned observation table: no returned row has a
\* null value
C4_NoNullValueReturned ==
  Returned =>
    /\ \A j \in DOMAIN df_long : df_long[j].Value # NaNF
    /\ \A i \in DOMAIN df : \A c \in DOMAIN YearColumns :
         ~Coercible(df[i].y[c]) =>
           \A j \in DOMAIN df_long :
             (df_long[j].code = df[i].code /\ df_long[j].mineral = df[i].mineral
                /\ df_long[j].Year = ConfiguredYears[c]
                /\ \A i2 \in DOMAIN df :
                     (df[i2].code = df[i].code /\ df[i2].mineral = df[i].mineral)
                       => ~Coercible(df[i2].y[c]))
             => df_long[j].Value # Fin(0)

\* C5: in every derived row the ratio is sales / employment when the employment
\* value is present and non-zero, and is undefined (null) when the employment
\* value is zero or absent
C5_RatioOrUndefined ==
  Returned =>
    \A m \in DOMAIN merged :
      LET s == merged[m].Value_Sales
          e == merged[m].Value_Emp
          q == merged[m].Sales_per_Employee
      IN IF e.k = "fin" /\ e.n # 0
         THEN IF s.k = "fin"
              THEN q.k = "fin" /\ q.n * e.n * s.d = s.n * q.d * e.d
              ELSE q = NaNF
         ELSE q = NaNF

\* C6: once melted, for each configured year the rows of that year are, in
\* order, the projected records: one row per record, with that record's code
\* and label and the value of that record's cell for the year; no row has
\* another year
C6_OneRowPerRecordAndYear ==
  pc \in {"melted", "cleaned", "named", "done"} =>
    /\ \A j \in DOMAIN df_long :
         \E c \in DOMAIN ConfiguredYears : df_long[j].Year = ConfiguredYears[c]
    /\ \A c \in DOMAIN ConfiguredYears :
         LET rows == RowsOfYear(df_long, ConfiguredYears[c])
         IN /\ Len(rows) = Len(df)
            /\ \A i \in DOMAIN df :
                 /\ rows[i].code = df[i].code
                 /\ rows[i].mineral = df[i].mineral
                 /\ rows[i].Value = ToNumeric(df[i].y[c])

C6_Witness ==
  /\ Returned
  /\ Len(df) = 2
  /\ df[1].code # df[2].code
  /\ \E j \in DOMAIN df_long : df_long[j].Value = NaNF
  /\ \E j \in DOMAIN df_long : df_long[j].Value = Fin(40) /\ df_long[j].Year = 2022

\* C8: every returned row has a non-null metric name: the table's display name
\* when its metric code is a key of the table, else the metric code itself
C8_MetricNameTotal ==
  Returned =>
    \A j \in DOMAIN df_long :
      /\ df_long[j].Metric # NaN
      /\ df_long[j].metric \in DOMAIN metric_map
           => df_long[j].Metric = metric_map[df_long[j].metric]
      /\ df_long[j].metric \notin DOMAIN metric_map
           => df_long[j].Metric = df_long[j].metric

(***************************************************************************)
(* The label cleaning applied to its own result                            *)
(***************************************************************************)
MaxTokens == 4

MaxPasses == 2

\* the pieces raw labels are put together from
Tokens ==
  { MiningOf, <<"M","i","n","i","n","g"," ">>, <<"o","f"," ">>,
    <<"g","o","l","d">>, <<" ">>, <<"(">>, <<")">>, <<"n",".","e",".","c",".">> }

RECURSIVE Flatten(_)
Flatten(q) == IF q = <<>> THEN <<>> ELSE Head(q) \o Flatten(Tail(q))

RawLabels == {NaN} \cup {Flatten(q) : q \in SeqsUpTo(Tokens, MaxTokens)}

InitNorm ==
  /\ raw_label \in RawLabels
  /\ rec_code \in {SalesTotalCode, SalesCode}
  /\ label = raw_label
  /\ passes = 0
  /\ LoadIdle
  /\ SessionIdle

\* lines 30-36 on the label cell, the first time on the raw label and then on
\* the label the previous pass produced
Normalize ==
  /\ passes < MaxPasses
  /\ label' = NormalizeLabel(label, rec_code)
  /\ passes' = passes + 1
  /\ UNCHANGED <<raw_label, rec_code, varsLoad, varsSession>>

NextNorm == Normalize

SpecNorm == InitNorm /\ [][NextNorm]_vars

\* C7: cleaning a label that has been cleaned already (with the same record
\* code) returns it unchanged
C7_NormalizerIdempotent == [][passes >= 1 => label' = label]_vars

C7_Witness ==
  /\ passes = 2
  /\ rec_code = SalesCode
  /\ raw_label = MiningOf \o <<"g","o","l","d">> \o <<"(">> \o <<")">>
  /\ label = <<"G","o","l","d">>

(***************************************************************************)
(* The running app: cached loads, workbook changes, mineral buttons        *)
(***************************************************************************)
PlatinumGroupMetalOre ==
  <<"P","l","a","t","i","n","u","m"," ","G","r","o","u","p"," ",
    "M","e","t","a","l"," ","O","r","e">>

CoalAndLignite ==
  <<"C","o","a","l"," ","A","n","d"," ","L","i","g","n","i","t","e">>

\* line 82
DefaultSelection == <<TotalIndustry, PlatinumGroupMetalOre, CoalAndLignite>>

\* the workbooks the app is run on
SessionGrids ==
  { <<HeaderRow,
      [code |-> SalesTotalCode, mineral |-> MiningOfGoldOreA, y |-> NumberCells],
      [code |-> EmploymentCode, mineral |-> GoldOre, y |-> MixedCells]>>,
    <<HeaderRow,
      [code |-> SalesCode, mineral |-> AllIndustries, y |-> NumberCells],
      [code |-> SalesCode, mineral |-> GoldOre, y |-> MixedCells]>>,
    <<HeaderRow,
      [code |-> UnmappedCode, mineral |-> GoldOre, y |-> MixedCells]>> }

\* @st.cache_data on load_data() (lines 17-18): the entry is keyed on the
\* function and its arguments, and load_data takes none, so the first result
\* is returned by every later call
CachedLoad(entries, grid) == IF entries = <<>> THEN load_data(grid) ELSE entries[1]

\* line 79: the minerals a button is drawn for
AllMinerals(long) == {long[j].Mineral : j \in DOMAIN long}

RECURSIVE RemoveFirst(_, _)
\* list.remove(x): drops the first occurrence
RemoveFirst(list, x) ==
  IF list = <<>> THEN <<>>
  ELSE IF Head(list) = x THEN Tail(list)
  ELSE <<Head(list)>> \o RemoveFirst(Tail(list), x)

\* a toggle that appends without looking for the mineral
toggle_mineral_append(selected, mineral) == Append(selected, mineral)

\* lines 84-88
toggle_mineral(selected, mineral) ==
  IF mineral \in Range(selected) THEN RemoveFirst(selected, mineral)
  ELSE Append(selected, mineral)

Init ==
  /\ file \in SessionGrids
  /\ cache = <<>>
  /\ df_global = <<>>
  /\ df_merged = <<>>
  /\ session_state = [keys |-> {}, selected_minerals |-> <<>>]
  /\ clicked = NoButton
  /\ file_at_call = <<>>
  /\ LoadIdle
  /\ NormIdle

\* one run of the script, top to bottom: line 50 (the cached load), lines 81-82
\* (the first run fills the selection), lines 91-98 (the pressed button, if it
\* is drawn in this run, toggles its mineral)
ScriptRun ==
  LET result == CachedLoad(cache, file)
      selected == IF "selected_minerals" \in session_state.keys
                  THEN session_state.selected_minerals
                  ELSE DefaultSelection
  IN /\ cache' = <<result>>
     /\ df_global' = result[1]
     /\ df_merged' = result[2]
     /\ file_at_call' = file
     /\ session_state' =
          [keys |-> session_state.keys \cup {"selected_minerals"},
           selected_minerals |->
             IF clicked # NoButton /\ clicked \in AllMinerals(result[1])
             THEN toggle_mineral(selected, clicked)
             ELSE selected]
     /\ clicked' = NoButton
     /\ UNCHANGED <<file, varsLoad, varsNorm>>

\* the user presses one of the mineral buttons the latest run has drawn
Click(mineral) ==
  /\ clicked = NoButton
  /\ mineral \in AllMinerals(df_global)
  /\ clicked' = mineral
  /\ UNCHANGED <<file, cache, df_global, df_merged, session_state, file_at_call,
                 varsLoad, varsNorm>>

\* the workbook is replaced on disk
FileChange(grid) ==
  /\ grid # file
  /\ file' = grid
  /\ UNCHANGED <<cache, df_global, df_merged, session_state, clicked, file_at_call,
                 varsLoad, varsNorm>>

Next ==
  \/ ScriptRun
  \/ \E mineral \in AllMinerals(df_global) : Click(mineral)
  \/ \E grid \in SessionGrids : FileChange(grid)

Spec == Init /\ [][Next]_vars

\* C9: the tables a run works on are the ones load_data computes from the
\* workbook content current at the time of that run's call
C9_LoadReflectsCurrentFile ==
  file_at_call # <<>> =>
    /\ df_global = load_data(file_at_call)[1]
    /\ df_merged = load_data(file_at_call)[2]

NoDuplicates(list) == \A i, j \in DOMAIN list : list[i] = list[j] => i = j

\* C10: the selection never holds a mineral twice, and the run that handles a
\* pressed button flips the membership of that mineral and of no other
C10_ToggleFlipsOneMineral ==
  [][ LET old == Range(session_state.selected_minerals)
          new == Range(session_state'.selected_minerals)
      IN /\ NoDuplicates(session_state'.selected_minerals)
         /\ (clicked # NoButton /\ clicked' = NoButton) =>
              /\ (clicked \in old) # (clicked \in new)
              /\ \A m \in (old \cup new) \ {clicked} : (m \in old) = (m \in new) ]_vars

C10_Witness ==
  session_state.selected_minerals =
    <<PlatinumGroupMetalOre, CoalAndLignite, Title(GoldOre), TotalIndustry>>

====
